---- MODULE Spec2Model ----
(***************************************************************************)
(* Model of the Photoshop "separate layers" publish plugin                 *)
(* (src/separate_layers.py): the four lifecycle methods accept, validate,  *)
(* publish and finalize of PhotoshopUploadVersionPlugin, the helpers       *)
(* _document_path and _get_save_as_action, and the parts of the outside    *)
(* world they act on: the item's property mapping, the open document, the  *)
(* process working directory, the file system, the logger and the          *)
(* tracking system's register_publish.                                     *)
(***************************************************************************)
EXTENDS Naturals, Sequences, FiniteSets

\* ------------------------------------------------------------- bounds
\* The longest layer stack of a document.
MaxLayers == 3

\* The layer names a document draws from, the directories a document or the
\* process can be in.
LayerNames == {"bg", "fg", "text"}
Dirs == {"proj", "work"}

\* ------------------------------------------------------------- values
\* Python's None, an unset mapping key, and file paths, as records with the
\* same fields.
None == [kind |-> "none", dir |-> "", stem |-> "", ext |-> ""]
Unset == [kind |-> "unset", dir |-> "", stem |-> "", ext |-> ""]
Path(d, s, e) == [kind |-> "path", dir |-> d, stem |-> s, ext |-> e]

\* Python truthiness of a path-or-None value (an empty string is falsy too).
Falsy(v) == v.kind # "path" \/ (v.dir = "" /\ v.stem = "" /\ v.ext = "")

\* All sequences over S of length at most n.
RECURSIVE SeqsUpTo(_, _)
SeqsUpTo(S, n) ==
    IF n = 0 THEN {<<>>}
    ELSE LET shorter == SeqsUpTo(S, n - 1)
         IN shorter \cup {Append(s, x) : s \in {t \in shorter : Len(t) = n - 1}, x \in S}

\* ------------------------------------------------------------- state
VARIABLES
    item,        \* item.properties: document, upload_path, remove_upload
    document,    \* the open host document: name, saved, fsName
    engine,      \* what sgtk.platform.current_engine().apps offers
    layers,      \* the names of the document's layer stack, in stack order
    cwd,         \* the process working directory
    fs,          \* the files on disk
    unremovable, \* the files os.remove cannot remove
    log,         \* the calls made on self.logger
    saves,       \* the files written by layer.compose().save, in order
    regs,        \* the calls of sgtk.util.register_publish, in order
    removes,     \* the arguments of the os.remove calls, in order
    resolves,    \* how often document.fullName.fsName was evaluated
    outcome,     \* per lifecycle method: pending, returned or raised
    acceptRet,   \* the dictionary accept returned, as a set of key/value pairs
    validateRet, \* what validate returned
    pub          \* the frame of the running publish call

vars == <<item, document, engine, layers, cwd, fs, unremovable, log, saves, regs,
          removes, resolves, outcome, acceptRet, validateRet, pub>>

\* ------------------------------------------------------------- helpers
\* document.fullName.fsName: raises for a document that was never saved.
fsName(d) ==
    IF d.saved THEN [raised |-> FALSE, value |-> d.fsName]
    ELSE [raised |-> TRUE, value |-> None]

\* _document_path with the return statement lost: the function yields None.
document_path_NoReturn(d) == None

\* _document_path(document): try the lookup, None on any exception.
document_path(d) ==
    LET r == fsName(d)
        path == IF r.raised THEN None ELSE r.value
    IN path

\* _get_save_as_action(document): the "Save As..." button, calling the
\* workfiles2 dialog when that app is configured and offers it.
get_save_as_action(eng) ==
    LET callback == IF eng.workfiles2 /\ eng.show_file_save_dlg
                    THEN "show_file_save_dlg" ELSE "engine.save_as"
    IN [key |-> "action_button", label |-> "Save As...", callback |-> callback]

NoExtra == [key |-> "", label |-> "", callback |-> ""]
ShowVersion == [key |-> "action_show_in_shotgun", label |-> "Show Version", callback |-> ""]

LogEntry(level, msg, arg, extra) ==
    [level |-> level, msg |-> msg, arg |-> arg, extra |-> extra]

\* layer.name + '.tiff'
TiffName(name) == [stem |-> name, ext |-> "tiff"]

\* The file a relative name denotes for the process: it is resolved against
\* the working directory.
SaveTarget(wd, rel) == Path(wd, rel.stem, rel.ext)

\* os.path.join(os.path.dirname(path), layer.name + '.tiff')
RegisterPath(docPath, rel) == Path(docPath.dir, rel.stem, rel.ext)

\* The register_publish call of one layer.
Registration(docPath, name) ==
    [path |-> RegisterPath(docPath, TiffName(name)),
     name |-> name,
     version_number |-> "None",
     published_file_type |-> "Rendered Image"]

\* PSDImage.open(path) can succeed only on the path of an existing file.
CanOpen(path) == ~Falsy(path) /\ path \in fs

IdleFrame == [pc |-> "idle", path |-> Unset, i |-> 0, failed |-> "none"]

\* ------------------------------------------------------------- initial states
Init ==
    /\ \E d \in {"unset", "None", "document"}, r \in {"unset", "False", "True"} :
          item = [document |-> d, upload_path |-> Unset, remove_upload |-> r]
    /\ \E saved \in BOOLEAN, dir \in Dirs :
          /\ document = [name |-> "doc",
                         saved |-> saved,
                         fsName |-> IF saved THEN Path(dir, "doc", "psd") ELSE None]
          /\ fs \in (IF saved THEN SUBSET {Path(dir, "doc", "psd")} ELSE {{}})
    /\ unremovable \in SUBSET fs
    /\ engine \in {[workfiles2 |-> FALSE, show_file_save_dlg |-> FALSE],
                   [workfiles2 |-> TRUE, show_file_save_dlg |-> FALSE],
                   [workfiles2 |-> TRUE, show_file_save_dlg |-> TRUE]}
    /\ layers \in SeqsUpTo(LayerNames, MaxLayers)
    /\ cwd \in Dirs
    /\ log = <<>>
    /\ saves = <<>>
    /\ regs = <<>>
    /\ removes = <<>>
    /\ resolves = 0
    /\ outcome = [accept |-> "pending", validate |-> "pending",
                  publish |-> "pending", finalize |-> "pending"]
    /\ acceptRet = {}
    /\ validateRet = "none"
    /\ pub = IdleFrame

\* ------------------------------------------------------------- accept
\* item.properties.get("document") followed by "if not document".
HasDocument_KeyOnly(it) == it.document # "unset"

HasDocument(it) == it.document = "document"

\* The dictionaries accept returns.
NotAccepted == {<<"accepted", FALSE>>}
Accepted == {<<"accepted", TRUE>>, <<"checked", TRUE>>}

\* "if not path" of accept.
NeedsSave_Never(path) == FALSE

NeedsSave(path) == Falsy(path)

\* accept(settings, item)
Accept ==
    /\ outcome.accept = "pending"
    /\ IF ~HasDocument(item)
       THEN /\ log' = Append(log, LogEntry("warn", "Could not determine the document for item",
                                           "", NoExtra))
            /\ acceptRet' = NotAccepted
            /\ outcome' = [outcome EXCEPT !.accept = "returned"]
            /\ UNCHANGED resolves
       ELSE IF item.document # "document"
       THEN \* a value without fullName and name: document.name raises
            /\ resolves' = resolves + 1
            /\ outcome' = [outcome EXCEPT !.accept = "raised"]
            /\ UNCHANGED <<log, acceptRet>>
       ELSE LET path == document_path(document)
                warned == IF NeedsSave(path)
                          THEN Append(log, LogEntry("warn", "has not been saved", document.name,
                                                    get_save_as_action(engine)))
                          ELSE log
            IN /\ resolves' = resolves + 1
               /\ log' = Append(warned, LogEntry("info", "plugin accepted document",
                                                 document.name, NoExtra))
               /\ acceptRet' = Accepted
               /\ outcome' = [outcome EXCEPT !.accept = "returned"]
    /\ UNCHANGED <<item, document, engine, layers, cwd, fs, unremovable, saves, regs,
                   removes, validateRet, pub>>

\* The host publisher generates a task only for an accepted item.
TaskExists == outcome.accept = "returned" /\ <<"accepted", TRUE>> \in acceptRet

\* The user saves the document (the "Save As..." button of accept's warning)
\* between two lifecycle calls: the document gets a path and a file.
UserSaveAs ==
    /\ TaskExists
    /\ ~document.saved
    /\ pub.pc \in {"idle", "done", "raised"}
    /\ outcome.finalize = "pending"
    /\ \E dir \in Dirs, locked \in BOOLEAN :
          LET p == Path(dir, document.name, "psd")
          IN /\ document' = [document EXCEPT !.saved = TRUE, !.fsName = p]
             /\ fs' = fs \cup {p}
             /\ unremovable' = IF locked THEN unremovable \cup {p} ELSE unremovable
    /\ UNCHANGED <<item, engine, layers, cwd, log, saves, regs, removes, resolves,
                   outcome, acceptRet, validateRet, pub>>

\* ------------------------------------------------------------- validate
\* The informational lines of validate's loop, one per layer.
RECURSIVE ValidatedLines(_)
ValidatedLines(names) ==
    IF names = <<>> THEN <<>>
    ELSE <<LogEntry("info", "Validated", Head(names), NoExtra)>> \o ValidatedLines(Tail(names))

\* validate that refuses a document without layers.
ValidateReturn_NeedsLayers(names) == IF names = <<>> THEN "False" ELSE "True"

\* "return True" of validate.
ValidateReturn(names) == "True"

\* validate(settings, item)
Validate ==
    /\ TaskExists
    /\ outcome.validate = "pending"
    /\ LET path == document_path(document)
       IN /\ resolves' = resolves + 1
          /\ \/ \* PSDImage.open(path) raises
                /\ outcome' = [outcome EXCEPT !.validate = "raised"]
                /\ UNCHANGED <<log, validateRet>>
             \/ \* PSDImage.open(path) returns the layers
                /\ CanOpen(path)
                /\ log' = log \o ValidatedLines(layers)
                /\ validateRet' = ValidateReturn(layers)
                /\ outcome' = [outcome EXCEPT !.validate = "returned"]
    /\ UNCHANGED <<item, document, engine, layers, cwd, fs, unremovable, saves, regs,
                   removes, acceptRet, pub>>

\* ------------------------------------------------------------- publish
\* publish is one synchronous call; it is modelled call by call (the open, then
\* per layer the save and the registration) because each of these outside
\* calls can raise and leave publish with what was done so far.  No other
\* lifecycle method and no user action runs while publish is under way.
\* publish storing the path on the item only once the document is open.
PublishBegin_StoreAfterOpen ==
    /\ TaskExists
    /\ outcome.validate # "pending"
    /\ outcome.publish = "pending"
    /\ pub.pc = "idle"
    /\ LET path == document_path(document)
       IN /\ resolves' = resolves + 1
          /\ \/ /\ pub' = [pc |-> "raised", path |-> path, i |-> 0, failed |-> "open"]
                /\ outcome' = [outcome EXCEPT !.publish = "raised"]
                /\ UNCHANGED item
             \/ /\ CanOpen(path)
                /\ item' = [item EXCEPT !.upload_path = path]
                /\ IF layers = <<>>
                   THEN /\ pub' = [pc |-> "done", path |-> path, i |-> 0, failed |-> "none"]
                        /\ outcome' = [outcome EXCEPT !.publish = "returned"]
                   ELSE /\ pub' = [pc |-> "save", path |-> path, i |-> 1, failed |-> "none"]
                        /\ UNCHANGED outcome
    /\ UNCHANGED <<document, engine, layers, cwd, fs, unremovable, log, saves, regs,
                   removes, acceptRet, validateRet>>

\* The first lines of publish: resolve the path, store it on the item, open
\* the document.  The plugin does not look at what validate returned.
PublishBegin ==
    /\ TaskExists
    /\ outcome.validate # "pending"
    /\ outcome.publish = "pending"
    /\ pub.pc = "idle"
    /\ LET path == document_path(document)
       IN /\ resolves' = resolves + 1
          /\ item' = [item EXCEPT !.upload_path = path]
          /\ \/ \* PSDImage.open(path) raises
                /\ pub' = [pc |-> "raised", path |-> path, i |-> 0, failed |-> "open"]
                /\ outcome' = [outcome EXCEPT !.publish = "raised"]
             \/ \* PSDImage.open(path) returns the layers
                /\ CanOpen(path)
                /\ IF layers = <<>>
                   THEN /\ pub' = [pc |-> "done", path |-> path, i |-> 0, failed |-> "none"]
                        /\ outcome' = [outcome EXCEPT !.publish = "returned"]
                   ELSE /\ pub' = [pc |-> "save", path |-> path, i |-> 1, failed |-> "none"]
                        /\ UNCHANGED outcome
    /\ UNCHANGED <<document, engine, layers, cwd, fs, unremovable, log, saves, regs,
                   removes, acceptRet, validateRet>>

\* layer.compose().save(layer.name + '.tiff') and the log line after it.
PublishSave ==
    /\ pub.pc = "save"
    /\ \/ \* compose or save raises: the error leaves publish
          /\ pub' = [pub EXCEPT !.pc = "raised", !.failed = "save"]
          /\ outcome' = [outcome EXCEPT !.publish = "raised"]
          /\ UNCHANGED <<fs, saves, log>>
       \/ LET target == SaveTarget(cwd, TiffName(layers[pub.i]))
          IN /\ fs' = fs \cup {target}
             /\ saves' = Append(saves, target)
             /\ log' = Append(log, LogEntry("info", "Saved Layer", layers[pub.i], NoExtra))
             /\ pub' = [pub EXCEPT !.pc = "register"]
             /\ UNCHANGED outcome
    /\ UNCHANGED <<item, document, engine, layers, cwd, unremovable, regs, removes,
                   resolves, acceptRet, validateRet>>

\* publish with the registration's failure swallowed: the loop goes on.
PublishRegister_Swallow ==
    /\ pub.pc = "register"
    /\ \/ /\ UNCHANGED regs
       \/ /\ regs' = Append(regs, Registration(pub.path, layers[pub.i]))
    /\ IF pub.i = Len(layers)
       THEN /\ pub' = [pub EXCEPT !.pc = "done"]
            /\ outcome' = [outcome EXCEPT !.publish = "returned"]
       ELSE /\ pub' = [pub EXCEPT !.pc = "save", !.i = pub.i + 1]
            /\ UNCHANGED outcome
    /\ UNCHANGED <<item, document, engine, layers, cwd, fs, unremovable, log, saves,
                   removes, resolves, acceptRet, validateRet>>

\* sgtk.util.register_publish(...) of the layer just saved, then the next
\* layer or the end of the loop.
PublishRegister ==
    /\ pub.pc = "register"
    /\ \/ \* register_publish raises: the error leaves publish
          /\ pub' = [pub EXCEPT !.pc = "raised", !.failed = "register"]
          /\ outcome' = [outcome EXCEPT !.publish = "raised"]
          /\ UNCHANGED regs
       \/ /\ regs' = Append(regs, Registration(pub.path, layers[pub.i]))
          /\ IF pub.i = Len(layers)
             THEN /\ pub' = [pub EXCEPT !.pc = "done"]
                  /\ outcome' = [outcome EXCEPT !.publish = "returned"]
             ELSE /\ pub' = [pub EXCEPT !.pc = "save", !.i = pub.i + 1]
                  /\ UNCHANGED outcome
    /\ UNCHANGED <<item, document, engine, layers, cwd, fs, unremovable, log, saves,
                   removes, resolves, acceptRet, validateRet>>

\* ------------------------------------------------------------- finalize
\* item.properties.get("remove_upload", False), taken as a condition.
RemoveUpload_Always(it) == TRUE

RemoveUpload(it) == it.remove_upload = "True"

\* os.remove(path) succeeds on an existing file that can be removed.
CanRemove(path) == ~Falsy(path) /\ path \in fs /\ path \notin unremovable

\* finalize without the try/except around os.remove.
Finalize_NoTry ==
    /\ TaskExists
    /\ outcome.publish # "pending"
    /\ outcome.finalize = "pending"
    /\ LET upload_path == item.upload_path
           said == Append(log, LogEntry("info", "Version uploaded for Photoshop document", "",
                                        ShowVersion))
       IN /\ log' = said
          /\ IF upload_path.kind = "unset"
             THEN /\ outcome' = [outcome EXCEPT !.finalize = "raised"]
                  /\ UNCHANGED <<fs, removes>>
             ELSE IF RemoveUpload(item)
             THEN /\ removes' = Append(removes, upload_path)
                  /\ IF CanRemove(upload_path)
                     THEN /\ fs' = fs \ {upload_path}
                          /\ outcome' = [outcome EXCEPT !.finalize = "returned"]
                     ELSE /\ outcome' = [outcome EXCEPT !.finalize = "raised"]
                          /\ UNCHANGED fs
             ELSE /\ outcome' = [outcome EXCEPT !.finalize = "returned"]
                  /\ UNCHANGED <<fs, removes>>
    /\ UNCHANGED <<item, document, engine, layers, cwd, unremovable, saves, regs,
                   resolves, acceptRet, validateRet, pub>>

\* finalize(settings, item)
Finalize ==
    /\ TaskExists
    /\ outcome.publish # "pending"
    /\ outcome.finalize = "pending"
    /\ LET upload_path == item.upload_path
           said == Append(log, LogEntry("info", "Version uploaded for Photoshop document", "",
                                        ShowVersion))
       IN IF upload_path.kind = "unset"
          THEN \* item.properties["upload_path"] raises KeyError
               /\ log' = said
               /\ outcome' = [outcome EXCEPT !.finalize = "raised"]
               /\ UNCHANGED <<fs, removes>>
          ELSE IF RemoveUpload(item)
          THEN /\ removes' = Append(removes, upload_path)
               /\ IF CanRemove(upload_path)
                  THEN /\ fs' = fs \ {upload_path}
                       /\ log' = said
                  ELSE /\ log' = Append(said, LogEntry("warn", "Unable to remove temp file",
                                                       "", NoExtra))
                       /\ UNCHANGED fs
               /\ outcome' = [outcome EXCEPT !.finalize = "returned"]
          ELSE /\ log' = said
               /\ outcome' = [outcome EXCEPT !.finalize = "returned"]
               /\ UNCHANGED <<fs, removes>>
    /\ UNCHANGED <<item, document, engine, layers, cwd, unremovable, saves, regs,
                   resolves, acceptRet, validateRet, pub>>

\* ------------------------------------------------------------- specification
Next ==
    \/ Accept
    \/ UserSaveAs
    \/ Validate
    \/ PublishBegin
    \/ PublishSave
    \/ PublishRegister
    \/ Finalize

Spec == Init /\ [][Next]_vars

\* ------------------------------------------------------------- steps
\* The steps in which a lifecycle method runs, told by its outcome.
AcceptStep == outcome.accept = "pending" /\ outcome'.accept # "pending"
ValidateStep == outcome.validate = "pending" /\ outcome'.validate # "pending"
PublishBeginStep == pub.pc = "idle" /\ pub'.pc # "idle"
FinalizeStep == outcome.finalize = "pending" /\ outcome'.finalize # "pending"

\* The log entries a step added.
Added == SubSeq(log', Len(log) + 1, Len(log'))

\* What path resolution yields for the document as it is.
Resolved == IF document.saved THEN document.fsName ELSE None

\* ------------------------------------------------------------- claims
\* C1: a publish call that completes has written exactly the files
\* '<layer name>.tiff' in the source document's directory, one per layer, and
\* has called register_publish once per layer, in layer order, with the
\* layer's name, the path '<document directory>/<layer name>.tiff',
\* published_file_type "Rendered Image" and version_number None.
C1_PublishWritesBesideDocument ==
    pub.pc = "done" =>
        /\ Len(saves) = Len(layers)
        /\ Len(regs) = Len(layers)
        /\ \A k \in 1..Len(layers) :
              /\ saves[k] = Path(pub.path.dir, layers[k], "tiff")
              /\ regs[k] = [path |-> Path(pub.path.dir, layers[k], "tiff"),
                            name |-> layers[k],
                            version_number |-> "None",
                            published_file_type |-> "Rendered Image"]

\* C2: accept on an item without a document (the property absent or falsy)
\* returns exactly {accepted: False}, logs one warning, resolves no document
\* path and leaves the item as it was.
C2_AcceptWithoutDocument ==
    [][(AcceptStep /\ item.document # "document") =>
          /\ outcome'.accept = "returned"
          /\ acceptRet' = {<<"accepted", FALSE>>}
          /\ Len(Added) = 1
          /\ Added[1].level = "warn"
          /\ resolves' = resolves
          /\ item' = item
          /\ UNCHANGED <<document, fs, saves, regs, removes>>]_vars

C2_Witness ==
    /\ item.document = "None"
    /\ outcome.accept = "returned"
    /\ acceptRet = {<<"accepted", FALSE>>}
    /\ resolves = 0

\* C3: accept on an item that carries a document returns
\* {accepted: True, checked: True} whether or not the path resolves; the
\* warning with the "Save As..." action is logged exactly when the resolved
\* path is absent; accept never raises and never rejects an unsaved document.
C3_AcceptWithDocument ==
    [][(AcceptStep /\ item.document = "document") =>
          /\ outcome'.accept = "returned"
          /\ acceptRet' = {<<"accepted", TRUE>>, <<"checked", TRUE>>}
          /\ (\E k \in 1..Len(Added) :
                 Added[k].level = "warn" /\ Added[k].extra.label = "Save As...")
             <=> Resolved = None]_vars

C3_Witness ==
    /\ item.document = "document"
    /\ ~document.saved
    /\ outcome.accept = "returned"
    /\ acceptRet = {<<"accepted", TRUE>>, <<"checked", TRUE>>}
    /\ \E k \in 1..Len(log) : log[k].level = "warn" /\ log[k].extra.label = "Save As..."

\* C4: publish rolls nothing back.  When the write or the registration of
\* layer j fails the error leaves publish; the layers before j stay written
\* and registered, none after j is written or registered, and layer j is
\* written but unregistered exactly when its registration was the failing
\* step.  At every point registrations <= files written <= registrations + 1.
C4_NoRollback ==
    /\ Len(regs) <= Len(saves)
    /\ Len(saves) <= Len(regs) + 1
    /\ Len(saves) <= Len(layers)
    /\ \A k \in 1..Len(saves) : saves[k].stem = layers[k] /\ saves[k] \in fs
    /\ \A k \in 1..Len(regs) : regs[k].name = layers[k]
    /\ pub.failed = "open" => (outcome.publish = "raised" /\ saves = <<>> /\ regs = <<>>)
    /\ pub.failed = "save" =>
          (outcome.publish = "raised" /\ Len(saves) = pub.i - 1 /\ Len(regs) = pub.i - 1)
    /\ pub.failed = "register" =>
          (outcome.publish = "raised" /\ Len(saves) = pub.i /\ Len(regs) = pub.i - 1)
    /\ pub.pc \in {"save", "register"} => outcome.publish = "pending"

C4_Witness ==
    /\ pub.failed = "register"
    /\ pub.i = 2
    /\ Len(saves) = 2
    /\ Len(regs) = 1
    /\ outcome.finalize = "returned"

\* C5 as stated: finalize deletes the file at upload_path if and only if
\* remove_upload is truthy; with remove_upload True and an existing file at
\* upload_path the file is gone afterwards, with remove_upload unset or False
\* the file remains and no deletion is attempted.
C5_FinalizeDeletesIffRemoveUpload ==
    [][FinalizeStep =>
          /\ (item.remove_upload = "True" /\ item.upload_path \in fs)
                => item.upload_path \notin fs'
          /\ item.remove_upload # "True" => (fs' = fs /\ removes' = removes)]_vars

\* C5 amended: finalize calls os.remove on upload_path if and only if
\* remove_upload is truthy.  With remove_upload True and an existing file the
\* file is gone afterwards when os.remove succeeds; when os.remove fails the
\* file remains and a warning is logged.  With remove_upload unset or False
\* the file remains and no deletion is attempted.  No other file is touched.
C5_FinalizeRemovesWhenItCan ==
    [][FinalizeStep =>
          /\ item.remove_upload = "True" => removes' = Append(removes, item.upload_path)
          /\ (item.remove_upload = "True" /\ item.upload_path \in fs
                 /\ item.upload_path \notin unremovable)
                => fs' = fs \ {item.upload_path}
          /\ (item.remove_upload = "True" /\ item.upload_path \in fs
                 /\ item.upload_path \in unremovable)
                => (fs' = fs /\ Added[Len(Added)].level = "warn")
          /\ item.remove_upload # "True" => (fs' = fs /\ removes' = removes)]_vars

C5_Witness ==
    /\ outcome.finalize = "returned"
    /\ item.remove_upload = "True"
    /\ item.upload_path.kind = "path"
    /\ removes = <<item.upload_path>>
    /\ item.upload_path \notin fs
    /\ log[Len(log)].level = "info"

\* C6: finalize with remove_upload True and an upload_path that is None,
\* names no file or names a file that cannot be removed logs a warning and
\* returns normally; the failed deletion changes no file.
C6_RemoveFailureIsSwallowed ==
    [][(FinalizeStep /\ item.remove_upload = "True"
           /\ (item.upload_path = None \/ item.upload_path \notin fs
                  \/ item.upload_path \in unremovable)) =>
          /\ outcome'.finalize = "returned"
          /\ Len(Added) = 2
          /\ Added[2].level = "warn"
          /\ Added[2].msg = "Unable to remove temp file"
          /\ fs' = fs]_vars

C6_Witness ==
    /\ outcome.finalize = "returned"
    /\ item.remove_upload = "True"
    /\ item.upload_path \in fs
    /\ item.upload_path \in unremovable
    /\ log[Len(log)].msg = "Unable to remove temp file"

C8_DocumentPathNeverRaises ==
    [][/\ PublishBeginStep =>
             /\ item'.upload_path = (IF document.saved THEN document.fsName ELSE None)
             /\ pub'.path = item'.upload_path
       /\ (AcceptStep /\ item.document = "document") =>
             (outcome'.accept = "returned" /\ resolves' = resolves + 1)]_vars

C8_Witness ==
    /\ ~document.saved
    /\ pub.failed = "open"
    /\ item.upload_path = None
    /\ resolves = 3

\* C9: over a document whose path never resolves accept succeeds, validate
\* and publish each raise before touching a layer, so no layer file is
\* written and nothing is registered; all that publish changes before it
\* raises is item.properties['upload_path'], set to the absent path.
C9_UnsavedNeverPublishes ==
    /\ [](~document.saved =>
             /\ saves = <<>>
             /\ regs = <<>>
             /\ fs = {}
             /\ outcome.validate \in {"pending", "raised"}
             /\ outcome.publish \in {"pending", "raised"}
             /\ (item.document = "document" /\ outcome.accept # "pending") =>
                   (outcome.accept = "returned" /\ <<"accepted", TRUE>> \in acceptRet)
             /\ outcome.publish = "raised" => (item.upload_path = None /\ pub.failed = "open"))
    /\ [][(PublishBeginStep /\ ~document.saved) =>
             /\ item' = [item EXCEPT !.upload_path = None]
             /\ outcome'.publish = "raised"
             /\ UNCHANGED <<document, fs, log, saves, regs, removes>>]_vars

C9_Witness ==
    /\ ~document.saved
    /\ outcome.accept = "returned"
    /\ outcome.validate = "raised"
    /\ outcome.publish = "raised"
    /\ outcome.finalize = "returned"
    /\ item.upload_path = None
    /\ saves = <<>>
    /\ regs = <<>>

\* C10: every path passed to register_publish is the path of a file publish
\* wrote earlier in the same call: for each layer the file written by
\* layer.compose().save and the path registered are the same file, whatever
\* the document's directory and the working directory.
C10_RegisteredPathWasWritten ==
    \A k \in 1..Len(regs) : k <= Len(saves) /\ regs[k].path = saves[k]

====
